---- MODULE Spec2Model ----
(***************************************************************************)
(* A model of the recipe recommender's core:                               *)
(*   backend/core/graph_triples.py  (health mapper, graph builder),        *)
(*   backend/core/model.py          (triple canonicalizer),                *)
(*   backend/core/recommender.py    (criteria translator, ranking          *)
(*                                   aggregator, recipe lookup),           *)
(*   backend/routers/recommend.py   (the request handlers).                *)
(*                                                                         *)
(* Python strings are sequences of one-character strings, so that          *)
(* lower(), strip(), split(), "in" and startswith() are computed on        *)
(* characters as the interpreter computes them.                            *)
(***************************************************************************)
EXTENDS Integers, Sequences, FiniteSets, TLC

VARIABLES
    element, relation,                       \* map_health_attribute: argument, return value
    recipes, G, triples, returned,           \* create_graph_and_triples: records visited, graph, triple list
    cat, rawv, kg, mirrored,                 \* one raw value, built into the graph and asked for in a request
    request, criteria, predicted, all_preds, merged, result, predictCalls,  \* one /recommend request
    recipes_df, model, triples_factory,      \* module-level state loaded at import
    handlers                                 \* requests in flight

vars == <<element, relation, recipes, G, triples, returned, cat, rawv, kg, mirrored,
          request, criteria, predicted, all_preds, merged, result, predictCalls,
          recipes_df, model, triples_factory, handlers>>

mapperVars == <<element, relation>>
builderVars == <<recipes, G, triples, returned>>
mirrorVars == <<cat, rawv, kg, mirrored>>
rankVars == <<request, criteria, predicted, all_preds, merged, result, predictCalls>>
serveVars == <<recipes_df, model, triples_factory, handlers>>

-----------------------------------------------------------------------------
(* Python str operations *)

UpperCase == <<"A","B","C","D","E","F","G","H","I","J","K","L","M",
               "N","O","P","Q","R","S","T","U","V","W","X","Y","Z">>
LowerCase == <<"a","b","c","d","e","f","g","h","i","j","k","l","m",
               "n","o","p","q","r","s","t","u","v","w","x","y","z">>

\* str.lower() on one character
LowerChar(c) ==
    IF \E i \in 1..Len(UpperCase) : UpperCase[i] = c
    THEN LowerCase[CHOOSE i \in 1..Len(UpperCase) : UpperCase[i] = c]
    ELSE c

\* str.lower()
Lower(s) == [i \in 1..Len(s) |-> LowerChar(s[i])]

\* the characters str.strip() removes
IsSpace(c) == c \in {" ", "\t", "\n"}

RECURSIVE LStrip(_)
LStrip(s) == IF s # <<>> /\ IsSpace(Head(s)) THEN LStrip(Tail(s)) ELSE s

RECURSIVE RStrip(_)
RStrip(s) ==
    IF s # <<>> /\ IsSpace(s[Len(s)]) THEN RStrip(SubSeq(s, 1, Len(s) - 1)) ELSE s

\* str.strip()
Strip(s) == RStrip(LStrip(s))

\* sub in s
Contains(s, sub) ==
    \E i \in 0..(Len(s) - Len(sub)) : SubSeq(s, i + 1, i + Len(sub)) = sub

\* s.startswith(prefix)
StartsWith(s, prefix) ==
    Len(prefix) <= Len(s) /\ SubSeq(s, 1, Len(prefix)) = prefix

\* s.find(sub) + 1, 0 when sub is not in s
Find(s, sub) ==
    IF Contains(s, sub)
    THEN CHOOSE i \in 1..(Len(s) - Len(sub) + 1) :
            /\ SubSeq(s, i, i + Len(sub) - 1) = sub
            /\ \A j \in 1..(i - 1) : SubSeq(s, j, j + Len(sub) - 1) # sub
    ELSE 0

\* s.split(delimiter), delimiter one character
RECURSIVE Split(_, _)
Split(s, delimiter) ==
    LET i == Find(s, <<delimiter>>) IN
    IF i = 0 THEN <<s>>
    ELSE <<SubSeq(s, 1, i - 1)>> \o Split(SubSeq(s, i + 1, Len(s)), delimiter)

\* s.split(sep, 1), sep a string
Split1(s, sep) ==
    LET i == Find(s, sep) IN
    IF i = 0 THEN <<s>>
    ELSE <<SubSeq(s, 1, i - 1), SubSeq(s, i + Len(sep), Len(s))>>

RECURSIVE Concat(_)
Concat(ss) == IF ss = <<>> THEN <<>> ELSE Head(ss) \o Concat(Tail(ss))

Digits == <<"0","1","2","3","4","5","6","7","8","9">>

\* str(n) of an int n >= 0
RECURSIVE IntStr(_)
IntStr(n) == IF n < 10 THEN <<Digits[n + 1]>> ELSE IntStr(n \div 10) \o <<Digits[(n % 10) + 1]>>

IsDigit(c) == \E i \in 1..10 : Digits[i] = c

\* int(s) of a string of digits
RECURSIVE ParseInt(_)
ParseInt(s) ==
    IF Len(s) = 1 THEN (CHOOSE i \in 1..10 : Digits[i] = s[1]) - 1
    ELSE 10 * ParseInt(SubSeq(s, 1, Len(s) - 1))
         + (CHOOSE i \in 1..10 : Digits[i] = s[Len(s)]) - 1

-----------------------------------------------------------------------------
(* graph_triples.py: map_health_attribute *)

UNKNOWN_PLACEHOLDER == <<"u","n","k","n","o","w","n">>

s_protein == <<"p","r","o","t","e","i","n">>
s_carb == <<"c","a","r","b">>
s_fat == <<"f","a","t">>
s_saturated == <<"s","a","t","u","r","a","t","e","d">>
s_saturated_fat == <<"s","a","t","u","r","a","t","e","d","_","f","a","t">>
s_calorie == <<"c","a","l","o","r","i","e">>
s_sodium == <<"s","o","d","i","u","m">>
s_sugar == <<"s","u","g","a","r">>
s_fiber == <<"f","i","b","e","r">>
s_cholesterol == <<"c","h","o","l","e","s","t","e","r","o","l">>

map_health_attribute(elem) ==
    LET e == Lower(elem) IN
    IF Contains(e, s_protein) THEN "HasProteinLevel"
    ELSE IF Contains(e, s_carb) THEN "HasCarbLevel"
    ELSE IF Contains(e, s_fat) /\ ~Contains(e, s_saturated) THEN "HasFatLevel"
    ELSE IF Contains(e, s_saturated_fat) THEN "HasSaturatedFatLevel"
    ELSE IF Contains(e, s_calorie) THEN "HasCalorieLevel"
    ELSE IF Contains(e, s_sodium) THEN "HasSodiumLevel"
    ELSE IF Contains(e, s_sugar) THEN "HasSugarLevel"
    ELSE IF Contains(e, s_fiber) THEN "HasFiberLevel"
    ELSE IF Contains(e, s_cholesterol) THEN "HasCholesterolLevel"
    ELSE "HasHealthAttribute"

\* The health-attribute strings tried: every concatenation of at most
\* MaxPieces of these pieces.
MaxPieces == 3

Pieces ==
    { s_saturated, s_fat, s_protein, s_carb, s_calorie, s_sodium, s_sugar,
      s_fiber, s_cholesterol,
      <<"S","a","t","u","r","a","t","e","d">>, <<"F","A","T">>,
      <<"_">>, <<" ">>, <<"l","o","w">> }

RECURSIVE PieceStrings(_)
PieceStrings(n) ==
    IF n = 0 THEN { <<>> }
    ELSE LET shorter == PieceStrings(n - 1) IN
         shorter \cup { s \o p : s \in shorter, p \in Pieces }

HealthStrings == PieceStrings(MaxPieces)

-----------------------------------------------------------------------------
(* graph_triples.py: split_and_clean, create_graph_and_triples *)

\* A field of a recipe record is a str, or the float NaN that pandas puts
\* in an empty CSV cell.  NaN is the one value that is not a string of
\* characters.
NaN == <<"NaN">>

\* bool(v): a str is true unless empty, NaN is true
Truthy(v) == v # <<>>

\* str(v)
PyStr(v) == IF v = NaN THEN <<"n","a","n">> ELSE v

split_and_clean(value, delimiter) ==
    LET parts == Split(value, delimiter)
        kept == SelectSeq(parts, LAMBDA v : Strip(v) # <<>>)
    IN  [i \in 1..Len(kept) |-> Strip(kept[i])]

\* the guard of every category: element and element != UNKNOWN_PLACEHOLDER
\* and str(element).strip() != ""
PassesGuard(v) ==
    /\ Truthy(v)
    /\ v # UNKNOWN_PLACEHOLDER
    /\ Strip(PyStr(v)) # <<>>

attribute_mappings ==
    << [col |-> "Cooking_Method", relation |-> "usesCookingMethod", node_type |-> "cooking_method"],
       [col |-> "servings_bin", relation |-> "hasServingsBin", node_type |-> "servings_bin"],
       [col |-> "cook_time", relation |-> "hasCookTime", node_type |-> "cook_time"],
       [col |-> "CuisineRegion", relation |-> "hasCuisineRegion", node_type |-> "cuisine_region"] >>

list_attributes ==
    << [col |-> "Diet_Types", relation |-> "hasDietType", node_type |-> "diet_type", delimiter |-> ","],
       [col |-> "meal_type", relation |-> "isForMealType", node_type |-> "meal_type", delimiter |-> ","] >>

ingredient_relation == "containsIngredient"
ingredient_node_type == "ingredient"
ingredient_delimiter == ";"

\* The characters of a node type, for str() of a node identifier.
TypeChars(node_type) ==
    CASE node_type = "recipe" -> <<"r","e","c","i","p","e">>
      [] node_type = "cooking_method" -> <<"c","o","o","k","i","n","g","_","m","e","t","h","o","d">>
      [] node_type = "servings_bin" -> <<"s","e","r","v","i","n","g","s","_","b","i","n">>
      [] node_type = "cook_time" -> <<"c","o","o","k","_","t","i","m","e">>
      [] node_type = "cuisine_region" -> <<"c","u","i","s","i","n","e","_","r","e","g","i","o","n">>
      [] node_type = "diet_type" -> <<"d","i","e","t","_","t","y","p","e">>
      [] node_type = "meal_type" -> <<"m","e","a","l","_","t","y","p","e">>
      [] node_type = "health_attribute" -> <<"h","e","a","l","t","h","_","a","t","t","r","i","b","u","t","e">>
      [] node_type = "ingredient" -> <<"i","n","g","r","e","d","i","e","n","t">>

\* str(node_id) of a tuple (type, value): "('meal_type', 'dinner')", and
\* "('recipe', 7)" for the int identifier of a recipe.  The values of the
\* model hold no quote and no backslash, so repr() quotes them with '.
TupleStr(node_id) ==
    <<"(", "'">> \o TypeChars(node_id[1]) \o <<"'", ",", " ">>
    \o (IF node_id[1] = "recipe" THEN IntStr(node_id[2])
        ELSE <<"'">> \o node_id[2] \o <<"'">>)
    \o <<")">>

\* The (relation, node) pairs one record adds, in the order the loop body
\* adds them.
SingleInsertions(details) ==
    Concat([k \in 1..Len(attribute_mappings) |->
        LET m == attribute_mappings[k]
            elem == details[m.col]
        IN  IF PassesGuard(elem)
            THEN LET element_clean == Strip(PyStr(elem)) IN
                 << [relation |-> m.relation,
                     node_id |-> <<m.node_type, element_clean>>,
                     type |-> m.node_type, label |-> element_clean] >>
            ELSE <<>>])

HealthInsertions(details) ==
    LET healthy == details["Healthy_Type"] IN
    IF PassesGuard(healthy)
    THEN LET healthy_elements == split_and_clean(PyStr(healthy), ",") IN
         [i \in 1..Len(healthy_elements) |->
            [relation |-> map_health_attribute(healthy_elements[i]),
             node_id |-> <<"health_attribute", healthy_elements[i]>>,
             type |-> "health_attribute", label |-> healthy_elements[i]]]
    ELSE <<>>

ListInsertions(details) ==
    Concat([k \in 1..Len(list_attributes) |->
        LET m == list_attributes[k]
            value == details[m.col]
        IN  IF PassesGuard(value)
            THEN LET elements == split_and_clean(PyStr(value), m.delimiter) IN
                 [i \in 1..Len(elements) |->
                    [relation |-> m.relation,
                     node_id |-> <<m.node_type, elements[i]>>,
                     type |-> m.node_type, label |-> elements[i]]]
            ELSE <<>>])

\* the node identifier with the ingredient's case kept
IngredientNodeId_CaseKept(ingredient) == <<"ingredient", ingredient>>

IngredientNodeId(ingredient) == <<"ingredient", Lower(ingredient)>>

IngredientInsertions(details) ==
    LET best_usda == details["BestUsdaIngredientName"] IN
    IF PassesGuard(best_usda)
    THEN LET ingredients == split_and_clean(PyStr(best_usda), ingredient_delimiter) IN
         [i \in 1..Len(ingredients) |->
            [relation |-> ingredient_relation,
             node_id |-> IngredientNodeId(ingredients[i]),
             type |-> ingredient_node_type, label |-> ingredients[i]]]
    ELSE <<>>

Insertions(details) ==
    SingleInsertions(details) \o HealthInsertions(details)
    \o ListInsertions(details) \o IngredientInsertions(details)

\* nx.DiGraph: the nodes are a dict (one entry per key, in insertion order),
\* the edges a dict keyed by (u, v) whose entry holds the relation.
has_node(g, node_id) == \E i \in 1..Len(g.nodes) : g.nodes[i].id = node_id

\* if not G.has_node(node_id): G.add_node(node_id, type=..., label=...)
add_node(g, node_id, type, label) ==
    IF has_node(g, node_id) THEN g
    ELSE [g EXCEPT !.nodes = Append(@, [id |-> node_id, type |-> type, label |-> label])]

\* G.add_edge(u, v, relation=relation): a second edge u -> v replaces the first
add_edge(g, u, v, rel) ==
    [g EXCEPT !.edges = {e \in @ : ~(e.u = u /\ e.v = v)}
                        \cup {[u |-> u, v |-> v, relation |-> rel]}]

\* One (relation, node) pair of the loop body: node, edge, triple.
RECURSIVE InsertAll(_, _, _)
InsertAll(st, recipe_node, ins) ==
    IF ins = <<>> THEN st
    ELSE LET i == Head(ins)
             g1 == add_node(st.G, i.node_id, i.type, i.label)
             g2 == add_edge(g1, recipe_node, i.node_id, i.relation)
             t2 == Append(st.triples,
                          <<TupleStr(recipe_node), i.relation, TupleStr(i.node_id)>>)
         IN  InsertAll([G |-> g2, triples |-> t2], recipe_node, Tail(ins))

\* The body of "for recipe_id, details in recipes.items()".
ProcessRecord(st, recipe_id, details) ==
    LET recipe_node == <<"recipe", recipe_id>>
        g0 == add_node(st.G, recipe_node, "recipe", recipe_id)
    IN  InsertAll([G |-> g0, triples |-> st.triples], recipe_node, Insertions(details))

Columns ==
    { "Cooking_Method", "servings_bin", "Diet_Types", "meal_type", "cook_time",
      "Healthy_Type", "CuisineRegion", "BestUsdaIngredientName" }

\* The records tried: a record of blanks, a typical record, and the typical
\* record with one field replaced by each of that field's values below.
BlankRecord == [c \in Columns |-> <<>>]

TypicalRecord ==
    [ Cooking_Method |-> <<"B","a","k","e">>,
      servings_bin |-> <<"4">>,
      Diet_Types |-> <<"V","e","g","a","n">>,
      meal_type |-> <<"d","i","n","n","e","r">>,
      cook_time |-> <<"1","h">>,
      Healthy_Type |-> <<"l","o","w","_","f","a","t">>,
      CuisineRegion |-> <<"A","s","i","a">>,
      BestUsdaIngredientName |-> <<"T","o","m","a","t","o",";","s","a","l","t">> ]

FieldValues ==
    [ Cooking_Method |-> { UNKNOWN_PLACEHOLDER, <<" ">>, <<" ","u","n","k","n","o","w","n"," ">>, <<"b","a","k","e">>, <<" ","B","a","k","e">>, NaN },
      servings_bin |-> { UNKNOWN_PLACEHOLDER, <<>>, <<"2">> },
      cook_time |-> { UNKNOWN_PLACEHOLDER, <<"\t">>, <<"2","h">> },
      CuisineRegion |-> { UNKNOWN_PLACEHOLDER, <<"a","s","i","a">>, NaN },
      Diet_Types |-> { UNKNOWN_PLACEHOLDER, <<"V","e","g","a","n",",","K","e","t","o">>, <<"K","e","t","o",","," ",",","K","e","t","o">>, <<"K","e","t","o",",","u","n","k","n","o","w","n">> },
      meal_type |-> { UNKNOWN_PLACEHOLDER, <<" ",","," ">>, <<"D","i","n","n","e","r",",","d","i","n","n","e","r">> },
      Healthy_Type |-> { UNKNOWN_PLACEHOLDER, <<"L","o","w"," ","S","a","t","u","r","a","t","e","d"," ","F","a","t",",","l","o","w","_","f","a","t">>, <<" ","l","o","w","_","s","a","t","u","r","a","t","e","d","_","f","a","t"," ">> },
      BestUsdaIngredientName |-> { UNKNOWN_PLACEHOLDER, <<"t","o","m","a","t","o",";","S","A","L","T">>, <<"T","O","M","A","T","O",";"," ","S","a","l","t",";","s","a","l","t">>, <<"a",",","b",";","c">> } ]

Records ==
    { BlankRecord, TypicalRecord }
    \cup UNION { { [TypicalRecord EXCEPT ![c] = v] : v \in FieldValues[c] } : c \in Columns }

-----------------------------------------------------------------------------
(* model.py: tuple_to_canonical, get_triples_factory *)

\* ast.literal_eval(s) of the str() of a (type, value) tuple, then
\* f"{t[0]}_{t[1]}"; any string that is not such a tuple raises, and the
\* except branch returns s as it is.
tuple_to_canonical(s) ==
    LET quote == <<"'">>
        open == <<"(", "'">>
        sep == <<",", " ">>
        rest == SubSeq(s, 3, Len(s))
        i == Find(rest, quote)
        t0 == SubSeq(rest, 1, i - 1)
        after == SubSeq(rest, i + 1, Len(rest))
        second == SubSeq(after, 3, Len(after))
        quoted == SubSeq(second, 2, Len(second))
        j == Find(quoted, quote)
        digits == SubSeq(second, 1, Len(second) - 1)
    IN  IF ~StartsWith(s, open) \/ i = 0 \/ ~StartsWith(after, sep) \/ second = <<>>
        THEN s
        ELSE IF StartsWith(second, quote)
        THEN IF j # 0 /\ SubSeq(quoted, j + 1, Len(quoted)) = <<")">>
             THEN t0 \o <<"_">> \o SubSeq(quoted, 1, j - 1)
             ELSE s
        ELSE IF /\ second[Len(second)] = ")"
                /\ digits # <<>>
                /\ \A k \in 1..Len(digits) : IsDigit(digits[k])
        THEN t0 \o <<"_">> \o IntStr(ParseInt(digits))
        ELSE s

\* The labelled triples of the TriplesFactory: every row of the saved
\* Head/Relation/Tail table, head and tail made canonical.  The relation
\* names hold no blank, so r.strip() leaves them as they are.
get_triples_factory(rows) ==
    { <<tuple_to_canonical(rows[k][1]), rows[k][2], tuple_to_canonical(rows[k][3])>> :
        k \in 1..Len(rows) }

-----------------------------------------------------------------------------
(* recommender.py: map_user_input_to_criteria *)

\* Python's None, for the Optional[str] fields of a request
None == <<"None">>

\* "if field:" on an Optional[str]
Given(v) == v # None /\ v # <<>>

\* weights.get(key, 1.0); a weight w of the model stands for the float w
WeightOf(weights, key) == IF key \in DOMAIN weights THEN weights[key] ELSE 1

Criterion(tail, rel, weight) == [tail |-> tail, relation |-> rel, weight |-> weight]

map_user_input_to_criteria(req) ==
    LET w == req.weights IN
    (IF Given(req.cooking_method)
     THEN << Criterion(<<"c","o","o","k","i","n","g","_","m","e","t","h","o","d","_">> \o Lower(Strip(req.cooking_method)),
                       "usesCookingMethod", WeightOf(w, "cooking_method")) >>
     ELSE <<>>)
    \o (IF Given(req.servings_bin)
        THEN << Criterion(<<"s","e","r","v","i","n","g","s","_","b","i","n","_">> \o Strip(req.servings_bin),
                          "hasServingsBin", WeightOf(w, "servings_bin")) >>
        ELSE <<>>)
    \o [i \in 1..Len(req.diet_types) |->
          Criterion(<<"d","i","e","t","_","t","y","p","e","_">> \o Strip(req.diet_types[i]),
                    "hasDietType", WeightOf(w, "diet_types"))]
    \o [i \in 1..Len(req.meal_type) |->
          Criterion(<<"m","e","a","l","_","t","y","p","e","_">> \o Strip(req.meal_type[i]),
                    "isForMealType", WeightOf(w, "meal_type"))]
    \o (IF Given(req.cook_time)
        THEN << Criterion(<<"c","o","o","k","_","t","i","m","e","_">> \o Strip(req.cook_time),
                          "hasCookTime", WeightOf(w, "cook_time")) >>
        ELSE <<>>)
    \o [i \in 1..Len(req.health_types) |->
          Criterion(<<"h","e","a","l","t","h","_","a","t","t","r","i","b","u","t","e","_">> \o Strip(req.health_types[i]),
                    map_health_attribute(Strip(req.health_types[i])),
                    WeightOf(w, "healthy_type"))]
    \o (IF Given(req.cuisine_region)
        THEN << Criterion(<<"c","u","i","s","i","n","e","_","r","e","g","i","o","n","_">> \o Strip(req.cuisine_region),
                          "hasCuisineRegion", WeightOf(w, "cuisine_region")) >>
        ELSE <<>>)
    \o [i \in 1..Len(req.ingredients) |->
          Criterion(<<"i","n","g","r","e","d","i","e","n","t","_">> \o Strip(req.ingredients[i]),
                    "containsIngredient", WeightOf(w, "ingredients"))]

\* schemas.py: the defaults of a RecommendationRequest
DefaultRequest ==
    [ cooking_method |-> None, servings_bin |-> None, diet_types |-> <<>>,
      meal_type |-> <<>>, cook_time |-> None, health_types |-> <<>>,
      cuisine_region |-> None, ingredients |-> <<>>, weights |-> <<>>,
      top_k |-> 5, flexible |-> FALSE ]

-----------------------------------------------------------------------------
(* recommender.py: _normalize_scores, get_matching_recipes *)

\* A data frame keyed by head_label is a function from the labels of its
\* rows to their value.  predict_target returns one row per entity, so no
\* label occurs twice.  The order of the rows only decides the order of
\* equal scores after sort_values, which is left open below.
EmptyFrame == <<>>

Min(S) == CHOOSE x \in S : \A y \in S : x <= y
Max(S) == CHOOSE x \in S : \A y \in S : x >= y

\* The raw scores the adapter may give, and the fixed-point unit that
\* stands for the float 1.0: the least number every positive difference of
\* two raw scores divides, so that (x - min) / (max - min) is exact.
RawScores == {5, 8, 9}

RECURSIVE Gcd(_, _)
Gcd(a, b) == IF b = 0 THEN a ELSE Gcd(b, a % b)

RECURSIVE LcmOf(_)
LcmOf(S) ==
    IF S = {} THEN 1
    ELSE LET x == CHOOSE y \in S : TRUE
             rest == LcmOf(S \ {x})
         IN  (x * rest) \div Gcd(x, rest)

Unit == LcmOf({ a - b : a, b \in RawScores } \ (-(Max(RawScores))..0))

recipe_prefix == <<"r","e","c","i","p","e","_">>

\* the scaler fitted on the recipe rows alone
_normalize_scores_RecipeRowsOnly(df) ==
    LET scores == { df[l] : l \in { x \in DOMAIN df : StartsWith(x, recipe_prefix) } } IN
    IF scores = {} THEN [l \in DOMAIN df |-> 0]
    ELSE LET lo == Min(scores)
             range == Max(scores) - lo
         IN  [l \in DOMAIN df |->
                IF range = 0 THEN 0 ELSE ((df[l] - lo) * Unit) \div range]

\* MinMaxScaler().fit_transform(df[["score"]]): (x - min) / (max - min),
\* and x - min = 0 when all scores are equal; an empty frame is returned
\* as it is
_normalize_scores(df) ==
    IF DOMAIN df = {} THEN df
    ELSE LET scores == { df[l] : l \in DOMAIN df }
             lo == Min(scores)
             range == Max(scores) - lo
         IN  [l \in DOMAIN df |->
                IF range = 0 THEN 0 ELSE ((df[l] - lo) * Unit) \div range]

\* preds["weighted_score"] = preds["normalized_score"] * weight
WeightedPreds(out, weight) ==
    LET normalized == _normalize_scores(out) IN
    [l \in DOMAIN normalized |-> normalized[l] * weight]

\* merged.merge(other, on="head_label", how="outer"), the two scores added
\* with fillna(0)
MergeOuter(m, other) ==
    [l \in (DOMAIN m) \cup (DOMAIN other) |->
        (IF l \in DOMAIN m THEN m[l] ELSE 0)
        + (IF l \in DOMAIN other THEN other[l] ELSE 0)]

\* merged.merge(other, on="head_label", how="inner"), the two scores added
MergeInner(m, other) ==
    [l \in (DOMAIN m) \cap (DOMAIN other) |-> m[l] + other[l]]

\* the merge with how="inner" in both branches
MergeStep_AlwaysInner(m, other, flexible) == MergeInner(m, other)

MergeStep(m, other, flexible) ==
    IF flexible THEN MergeOuter(m, other) ELSE MergeInner(m, other)

\* merged = all_preds[0]; for other in all_preds[1:]: ...
RECURSIVE MergeFrom(_, _, _)
MergeFrom(m, others, flexible) ==
    IF others = <<>> THEN m
    ELSE MergeFrom(MergeStep(m, Head(others), flexible), Tail(others), flexible)

\* merged[merged["head_label"].str.startswith("recipe_")]
FilterRecipes(m) == [l \in { x \in DOMAIN m : StartsWith(x, recipe_prefix) } |-> m[l]]

\* every one-to-one listing of a set
RECURSIVE Listings(_)
Listings(S) ==
    IF S = {} THEN { <<>> }
    ELSE UNION { { <<x>> \o rest : rest \in Listings(S \ {x}) } : x \in S }

\* the sort with ascending=True
SortedOrders_Ascending(m) ==
    { s \in Listings(DOMAIN m) :
        \A i, j \in 1..Len(s) : i < j => m[s[i]] <= m[s[j]] }

\* merged.sort_values(by="weighted_score", ascending=False): the default
\* quicksort is not stable, so rows of equal score may come in any order
SortedOrders(m) ==
    { s \in Listings(DOMAIN m) :
        \A i, j \in 1..Len(s) : i < j => m[s[i]] >= m[s[j]] }

\* DataFrame.head(n): the first n rows, all but the last -n when n < 0
HeadRows(s, n) ==
    IF n >= 0 THEN SubSeq(s, 1, IF n < Len(s) THEN n ELSE Len(s))
    ELSE SubSeq(s, 1, IF Len(s) + n > 0 THEN Len(s) + n ELSE 0)

\* node_str.split("recipe_", 1)[1]
parse_recipe_id(node_str) == Split1(node_str, recipe_prefix)[2]

Returned(ids) == [status |-> "returned", ids |-> ids]
Pending == [status |-> "pending", ids |-> <<>>]

\* lines 92-100: one predict_target call per criterion, outs[i] being what
\* the i-th call returns
PredictAll(crit, outs) ==
    [i \in 1..Len(crit) |-> WeightedPreds(outs[i], crit[i].weight)]

\* lines 102-119
MergeAll(preds, flexible) ==
    FilterRecipes(MergeFrom(Head(preds), Tail(preds), flexible))

\* lines 120-127: the lists of identifiers the sort may produce
TopIds(m, top_k) ==
    { LET rows == HeadRows(s, top_k) IN
      [k \in 1..Len(rows) |-> parse_recipe_id(rows[k])] : s \in SortedOrders(m) }

\* lines 92-127, for a criterion list that is not empty
MatchCriteria(crit, top_k, flexible, outs) ==
    LET preds == PredictAll(crit, outs)
        m == MergeAll(preds, flexible)
    IN  [calls |-> Len(crit), predicted |-> outs, all_preds |-> preds, merged |-> m,
         results |-> { Returned(ids) : ids \in TopIds(m, top_k) }]

\* the function without its first two lines: on no criteria the loop makes
\* no call and all_preds[0] raises IndexError
get_matching_recipes_NoGuard(crit, top_k, flexible, outs) ==
    IF crit = <<>>
    THEN [calls |-> 0, predicted |-> <<>>, all_preds |-> <<>>, merged |-> EmptyFrame,
          results |-> { [status |-> "raised", ids |-> <<>>] }]
    ELSE MatchCriteria(crit, top_k, flexible, outs)

\* get_matching_recipes(criteria, top_k, flexible), given what the adapter
\* returns at each call: the calls made, the frames kept, and the lists it
\* may return
get_matching_recipes(crit, top_k, flexible, outs) ==
    IF crit = <<>>
    THEN [calls |-> 0, predicted |-> <<>>, all_preds |-> <<>>, merged |-> EmptyFrame,
          results |-> { Returned(<<>>) }]
    ELSE MatchCriteria(crit, top_k, flexible, outs)

-----------------------------------------------------------------------------
(* recommender.py: fetch_recipe_info; the state loaded at import *)

\* int(recipe_id): the number, or ValueError for a string that is not one
\* (blanks around the digits are accepted)
IsIntLiteral(s) ==
    LET x == Strip(s) IN x # <<>> /\ \A k \in 1..Len(x) : IsDigit(x[k])

\* fetch_recipe_info(recipe_id): the first row of the frame with that
\* RecipeId as a dict, None for no row or for a string that is no number.
\* The Optional result is a list here: empty for None, else the one dict.
fetch_recipe_info(df, recipe_id) ==
    IF ~IsIntLiteral(recipe_id) THEN <<>>
    ELSE LET rid_int == ParseInt(Strip(recipe_id))
             row == SelectSeq(df, LAMBDA r : r.RecipeId = rid_int)
         IN  IF row = <<>> THEN <<>> ELSE <<row[1]>>

\* data_loading.py: recipes_df = load_recipes_df(), the rows of the CSV
LoadedRecipes ==
    << [RecipeId |-> 10,
        details |-> [BlankRecord EXCEPT !.meal_type = <<"d","e","s","s","e","r","t">>,
                                        !.BestUsdaIngredientName = <<"S","u","g","a","r">>]],
       [RecipeId |-> 7,
        details |-> [BlankRecord EXCEPT !.meal_type = <<"d","e","s","s","e","r","t">>,
                                        !.Cooking_Method = <<"b","a","k","e">>]] >>

\* model.py: triples_factory = get_triples_factory(), over the triples the
\* graph builder saved for those rows
RECURSIVE BuildAll(_, _)
BuildAll(st, rows) ==
    IF rows = <<>> THEN st
    ELSE BuildAll(ProcessRecord(st, Head(rows).RecipeId, Head(rows).details), Tail(rows))

LoadedTriples ==
    get_triples_factory(
        BuildAll([G |-> [nodes |-> <<>>, edges |-> {}], triples |-> <<>>], LoadedRecipes).triples)

\* the entity labels of the factory: predict_target scores every one of
\* them as a head
Entities == { tr[1] : tr \in LoadedTriples } \cup { tr[3] : tr \in LoadedTriples }

\* model.py: model = load_kge_model().eval().  The trained model is the
\* scores it gives: for a (relation, tail), one raw score per entity.
ScoreFrame(s10, s7, others) ==
    [l \in Entities |->
        IF l = <<"r","e","c","i","p","e","_","1","0">> THEN s10
        ELSE IF l = <<"r","e","c","i","p","e","_","7">> THEN s7 ELSE others]

LoadedModel ==
    [key \in { <<tr[2], tr[3]>> : tr \in LoadedTriples } |->
        IF key[2] = <<"m","e","a","l","_","t","y","p","e","_","d","e","s","s","e","r","t">> THEN ScoreFrame(9, 5, 8)
        ELSE IF key[2] = <<"i","n","g","r","e","d","i","e","n","t","_","s","u","g","a","r">> THEN ScoreFrame(9, 8, 5)
        ELSE ScoreFrame(5, 9, 9)]

\* predict_target(model=model, relation=relation, tail=tail,
\* triples_factory=triples_factory).df: a new frame at every call
predict_target(mdl, rel, tail) == mdl[<<rel, tail>>]

\* The model after one pass of the loop of get_matching_recipes wrote the
\* normalized_score and weighted_score columns into the frame of the call
\* kept in a cache of the model, had predict_target returned that frame.
ModelAfterPredict_FrameShared(mdl, rel, tail, weight) ==
    [mdl EXCEPT ![<<rel, tail>>] = WeightedPreds(@, weight)]

\* The model after one pass of the loop of get_matching_recipes
\* (lines 94-100): the columns are written into the frame of this call,
\* and the model is only read.
ModelAfterPredict(mdl, rel, tail, weight) == mdl

-----------------------------------------------------------------------------
(* Specifications.  Each one runs one part of the program; the variables  *)
(* of the other parts stay at rest.                                        *)

NotMapped == "<not mapped>"

MapperIdle == element = <<>> /\ relation = NotMapped
BuilderIdle ==
    /\ recipes = <<>>
    /\ G = [nodes |-> <<>>, edges |-> {}]
    /\ triples = <<>>
    /\ returned = FALSE
MirrorIdle == cat = "" /\ rawv = <<>> /\ kg = <<>> /\ mirrored = <<>>
RankIdle ==
    /\ request = <<>>
    /\ criteria = <<>>
    /\ predicted = <<>>
    /\ all_preds = <<>>
    /\ merged = <<>>
    /\ result = <<>>
    /\ predictCalls = 0
ServeIdle ==
    /\ recipes_df = <<>>
    /\ model = <<>>
    /\ triples_factory = {}
    /\ handlers = <<>>

(* map_health_attribute on one string *)

InitMapper ==
    /\ element \in HealthStrings
    /\ relation = NotMapped
    /\ BuilderIdle /\ MirrorIdle /\ RankIdle /\ ServeIdle

MapHealthAttribute ==
    /\ relation = NotMapped
    /\ relation' = map_health_attribute(element)
    /\ UNCHANGED <<element, builderVars, mirrorVars, rankVars, serveVars>>

SpecMapper == InitMapper /\ [][MapHealthAttribute]_vars

(* create_graph_and_triples over a collection of records *)

MaxRecipes == 2

InitBuilder == MapperIdle /\ BuilderIdle /\ MirrorIdle /\ RankIdle /\ ServeIdle

\* one iteration of the loop over recipes.items()
ProcessRecipe ==
    /\ ~returned
    /\ Len(recipes) < MaxRecipes
    /\ \E details \in Records :
         LET recipe_id == Len(recipes) + 1
             st == ProcessRecord([G |-> G, triples |-> triples], recipe_id, details)
         IN  /\ recipes' = Append(recipes, details)
             /\ G' = st.G
             /\ triples' = st.triples
    /\ UNCHANGED <<returned, mapperVars, mirrorVars, rankVars, serveVars>>

\* return G, triples_array
ReturnGraph ==
    /\ ~returned
    /\ returned' = TRUE
    /\ UNCHANGED <<recipes, G, triples, mapperVars, mirrorVars, rankVars, serveVars>>

NextBuilder == ProcessRecipe \/ ReturnGraph

SpecBuilder == InitBuilder /\ [][NextBuilder]_vars

(* one raw value, through the graph builder and through a request *)

\* the column of a record and the field of a request of each category
Categories ==
    { [column |-> "Cooking_Method", field |-> "cooking_method", list |-> FALSE],
      [column |-> "servings_bin", field |-> "servings_bin", list |-> FALSE],
      [column |-> "cook_time", field |-> "cook_time", list |-> FALSE],
      [column |-> "CuisineRegion", field |-> "cuisine_region", list |-> FALSE],
      [column |-> "Diet_Types", field |-> "diet_types", list |-> TRUE],
      [column |-> "meal_type", field |-> "meal_type", list |-> TRUE],
      [column |-> "Healthy_Type", field |-> "health_types", list |-> TRUE],
      [column |-> "BestUsdaIngredientName", field |-> "ingredients", list |-> TRUE] }

\* the raw values tried in every category; none holds a delimiter
RawValues ==
    { <<"B","a","k","e">>, <<"b","a","k","e">>, <<" ","B","a","k","e"," ">>, <<"l","o","w","_","f","a","t">>, <<"L","o","w"," ","S","a","t","u","r","a","t","e","d"," ","F","a","t">>,
      <<"a","_","b">>, <<" ">>, UNKNOWN_PLACEHOLDER }

NotBuilt == [built |-> FALSE, triples |-> {}]
NotAsked == [asked |-> FALSE, criteria |-> <<>>]

InitMirror ==
    /\ cat \in Categories
    /\ rawv \in RawValues
    /\ kg = NotBuilt
    /\ mirrored = NotAsked
    /\ MapperIdle /\ BuilderIdle /\ RankIdle /\ ServeIdle

\* create_graph_and_triples on the one record that holds rawv in the
\* category's column, save_triples, then get_triples_factory on the file
BuildAndLoad ==
    /\ ~kg.built
    /\ LET details == [BlankRecord EXCEPT ![cat.column] = rawv]
           st == ProcessRecord([G |-> [nodes |-> <<>>, edges |-> {}], triples |-> <<>>],
                               1, details)
       IN  kg' = [built |-> TRUE, triples |-> get_triples_factory(st.triples)]
    /\ UNCHANGED <<cat, rawv, mirrored, mapperVars, builderVars, rankVars, serveVars>>

\* map_user_input_to_criteria on the request that holds rawv in the
\* category's field
AskFor ==
    /\ ~mirrored.asked
    /\ LET req == [DefaultRequest EXCEPT ![cat.field] = IF cat.list THEN <<rawv>> ELSE rawv]
       IN  mirrored' = [asked |-> TRUE, criteria |-> map_user_input_to_criteria(req)]
    /\ UNCHANGED <<cat, rawv, kg, mapperVars, builderVars, rankVars, serveVars>>

NextMirror == BuildAndLoad \/ AskFor

SpecMirror == InitMirror /\ [][NextMirror]_vars

(* one /recommend request: routers/recommend.py recommend_recipes *)

MaxK == 2

\* the entity labels the adapter may return
Labels == { <<"r","e","c","i","p","e","_","1","0">>, <<"r","e","c","i","p","e","_","7">>, <<"i","n","g","r","e","d","i","e","n","t","_","s","u","g","a","r">> }

\* what one predict_target call may return: any rows over Labels
Frames == UNION { [S -> RawScores] : S \in SUBSET Labels }

RequestBodies ==
    { DefaultRequest,
      [DefaultRequest EXCEPT !.cooking_method = <<>>, !.cuisine_region = <<>>],
      [DefaultRequest EXCEPT !.meal_type = << <<"d","e","s","s","e","r","t">> >>],
      [DefaultRequest EXCEPT !.cook_time = <<"1","h">>,
                             !.weights = [k \in {"cook_time"} |-> 0]],
      [DefaultRequest EXCEPT !.cooking_method = <<"B","a","k","e">>,
                             !.ingredients = << <<"s","u","g","a","r">> >>,
                             !.weights = [k \in {"ingredients"} |-> 2]],
      [DefaultRequest EXCEPT !.diet_types = << <<"V","e","g","a","n">> >>,
                             !.health_types = << <<"l","o","w","_","f","a","t">> >>,
                             !.weights = [k \in {"healthy_type"} |-> -1]],
      [DefaultRequest EXCEPT !.meal_type = << <<"d","e","s","s","e","r","t">>, <<"d","i","n","n","e","r">> >>] }

Requests ==
    { [b EXCEPT !.top_k = k, !.flexible = f] :
        b \in RequestBodies, k \in (-1)..MaxK, f \in BOOLEAN }

InitRank ==
    /\ request \in Requests
    /\ criteria = <<>>
    /\ predicted = <<>>
    /\ all_preds = <<>>
    /\ merged = EmptyFrame
    /\ result = Pending
    /\ predictCalls = 0
    /\ MapperIdle /\ BuilderIdle /\ MirrorIdle /\ ServeIdle

\* the handler of POST /recommend, the adapter free to return any frame at
\* each call
RecommendRecipes ==
    /\ result = Pending
    /\ LET crit == map_user_input_to_criteria(request) IN
       \E outs \in [1..Len(crit) -> Frames] :
         LET run == get_matching_recipes(crit, request.top_k, request.flexible, outs) IN
         /\ criteria' = crit
         /\ predicted' = run.predicted
         /\ all_preds' = run.all_preds
         /\ merged' = run.merged
         /\ predictCalls' = predictCalls + run.calls
         /\ result' \in run.results
    /\ UNCHANGED <<request, mapperVars, builderVars, mirrorVars, serveVars>>

SpecRank == InitRank /\ [][RecommendRecipes]_vars

(* concurrent requests against the state loaded at import *)

NumRequests == 2

Handlers == 1..NumRequests

\* the requests sent: POST /recommend with a body, GET /recipe/{recipe_id}
ServedRequests ==
    { [kind |-> "recommend", body |-> b] :
        b \in { [DefaultRequest EXCEPT !.top_k = 3],
                [DefaultRequest EXCEPT !.meal_type = << <<"d","e","s","s","e","r","t">> >>, !.top_k = 2],
                [DefaultRequest EXCEPT !.cooking_method = <<"B","a","k","e">>,
                                       !.ingredients = << <<"s","u","g","a","r">> >>,
                                       !.weights = [k \in {"ingredients"} |-> 2],
                                       !.top_k = 1, !.flexible = TRUE] } }
    \cup { [kind |-> "recipe", recipe_id |-> id] :
             id \in { <<"1","0">>, <<" ","7">>, <<"9","9">>, <<"a","b","c">> } }

Received(r) ==
    [req |-> r, pc |-> "received", criteria |-> <<>>, all_preds |-> <<>>, result |-> Pending]

InitServe ==
    /\ recipes_df = LoadedRecipes
    /\ model = LoadedModel
    /\ triples_factory = LoadedTriples
    /\ handlers \in [Handlers -> { Received(r) : r \in ServedRequests }]
    /\ MapperIdle /\ BuilderIdle /\ MirrorIdle /\ RankIdle

\* recommend_recipes up to the first predict_target call:
\* map_user_input_to_criteria, and the return of [] on no criteria
Translate(h) ==
    /\ handlers[h].pc = "received"
    /\ handlers[h].req.kind = "recommend"
    /\ LET crit == map_user_input_to_criteria(handlers[h].req.body) IN
       handlers' = [handlers EXCEPT ![h].criteria = crit,
                                    ![h].pc = IF crit = <<>> THEN "done" ELSE "predict",
                                    ![h].result = IF crit = <<>> THEN Returned(<<>>) ELSE @]
    /\ UNCHANGED <<recipes_df, model, triples_factory, mapperVars, builderVars, mirrorVars, rankVars>>

\* one pass of the loop over the criteria
Predict(h) ==
    /\ handlers[h].pc = "predict"
    /\ LET c == handlers[h].criteria[Len(handlers[h].all_preds) + 1]
           preds == WeightedPreds(predict_target(model, c.relation, c.tail), c.weight)
           done == Len(handlers[h].all_preds) + 1 = Len(handlers[h].criteria)
       IN  /\ handlers' = [handlers EXCEPT ![h].all_preds = Append(@, preds),
                                           ![h].pc = IF done THEN "merge" ELSE "predict"]
           /\ model' = ModelAfterPredict(model, c.relation, c.tail, c.weight)
    /\ UNCHANGED <<recipes_df, triples_factory, mapperVars, builderVars, mirrorVars, rankVars>>

\* the merge, the sort, the cut to top_k and the return
MergeAndReturn(h) ==
    /\ handlers[h].pc = "merge"
    /\ \E ids \in TopIds(MergeAll(handlers[h].all_preds, handlers[h].req.body.flexible),
                         handlers[h].req.body.top_k) :
         handlers' = [handlers EXCEPT ![h].result = Returned(ids), ![h].pc = "done"]
    /\ UNCHANGED <<recipes_df, model, triples_factory, mapperVars, builderVars, mirrorVars, rankVars>>

\* get_recipe_by_id: the row, or 404 when fetch_recipe_info gives None
GetRecipeById(h) ==
    /\ handlers[h].pc = "received"
    /\ handlers[h].req.kind = "recipe"
    /\ LET info == fetch_recipe_info(recipes_df, handlers[h].req.recipe_id) IN
       handlers' = [handlers EXCEPT
                      ![h].result = IF info = <<>> THEN [status |-> "404", info |-> <<>>]
                                    ELSE [status |-> "returned", info |-> info],
                      ![h].pc = "done"]
    /\ UNCHANGED <<recipes_df, model, triples_factory, mapperVars, builderVars, mirrorVars, rankVars>>

NextServe ==
    \E h \in Handlers : Translate(h) \/ Predict(h) \/ MergeAndReturn(h) \/ GetRecipeById(h)

SpecServe == InitServe /\ [][NextServe]_vars

-----------------------------------------------------------------------------
(* Claims about map_health_attribute (SpecMapper) *)

\* C1 (as stated): whenever the string holds both "saturated" and "fat",
\* case-insensitively, anywhere and with anything between them, the mapper
\* returns HasSaturatedFatLevel and never HasFatLevel.
C1_SaturatedFatAlwaysMapped ==
    (/\ relation # NotMapped
     /\ Contains(Lower(element), s_saturated)
     /\ Contains(Lower(element), s_fat))
    => relation = "HasSaturatedFatLevel"

-----------------------------------------------------------------------------
(* Claims about create_graph_and_triples (SpecBuilder) *)

\* the node type each column of a record feeds
ColumnType ==
    [ Cooking_Method |-> "cooking_method", servings_bin |-> "servings_bin",
      cook_time |-> "cook_time", CuisineRegion |-> "cuisine_region",
      Diet_Types |-> "diet_type", meal_type |-> "meal_type",
      Healthy_Type |-> "health_attribute", BestUsdaIngredientName |-> "ingredient" ]

ColumnDelimiter ==
    [ Cooking_Method |-> "", servings_bin |-> "", cook_time |-> "", CuisineRegion |-> "",
      Diet_Types |-> ",", meal_type |-> ",", Healthy_Type |-> ",",
      BestUsdaIngredientName |-> ";" ]

RecipeNode(i) == <<"recipe", i>>

\* a value that is the sentinel, or empty, or blank once trimmed
IsPlaceholderOrBlank(v) ==
    v # NaN /\ (v = UNKNOWN_PLACEHOLDER \/ Strip(v) = <<>>)

\* the attribute nodes of one type a recipe has an edge to
Linked(i, type) == { e.v : e \in { d \in G.edges : d.u = RecipeNode(i) /\ d.v[1] = type } }

\* the triples of a recipe whose tail is a node of one type
TriplesOf(i, type) ==
    { k \in 1..Len(triples) :
        /\ triples[k][1] = TupleStr(RecipeNode(i))
        /\ StartsWith(triples[k][3], <<"(", "'">> \o TypeChars(type) \o <<"'", ",">>) }

\* C7 (as stated): a category whose value is the "unknown" sentinel, empty
\* or blank gives its recipe no node, edge or triple, the recipe node is
\* still there, and so the graph never holds an attribute node that stands
\* for the sentinel or for a blank value.
C7_PlaceholderNeverInGraph ==
    /\ \A i \in 1..Len(recipes) :
         /\ has_node(G, RecipeNode(i))
         /\ \A c \in Columns :
              IsPlaceholderOrBlank(recipes[i][c])
              => Linked(i, ColumnType[c]) = {} /\ TriplesOf(i, ColumnType[c]) = {}
    /\ \A n \in 1..Len(G.nodes) :
         G.nodes[n].type # "recipe"
         => /\ G.nodes[n].id[2] # UNKNOWN_PLACEHOLDER
            /\ Strip(G.nodes[n].id[2]) # <<>>

\* The tokens of a delimited value, stated without split(): the trimmed,
\* non-blank maximal runs of characters that hold no delimiter.
TokenSet(s, delimiter) ==
    { Strip(SubSeq(s, r[1], r[2])) :
        r \in { x \in (1..Len(s)) \X (1..Len(s)) :
                  /\ x[1] <= x[2]
                  /\ \A k \in x[1]..x[2] : s[k] # delimiter
                  /\ (x[1] = 1 \/ s[x[1] - 1] = delimiter)
                  /\ (x[2] = Len(s) \/ s[x[2] + 1] = delimiter) } } \ { <<>> }

\* the (type, value) pairs a record stands for: ingredient values
\* lower-cased, every other value trimmed with its case kept
ExpectedAttributeNodes(details) ==
    UNION { IF ~PassesGuard(details[c]) THEN {}
            ELSE IF ColumnDelimiter[c] = ""
            THEN { <<ColumnType[c], Strip(PyStr(details[c]))>> }
            ELSE { <<ColumnType[c],
                     IF ColumnType[c] = "ingredient" THEN Lower(tok) ELSE tok>> :
                   tok \in TokenSet(PyStr(details[c]), ColumnDelimiter[c]) }
          : c \in Columns }

ExpectedNodes ==
    { RecipeNode(i) : i \in 1..Len(recipes) }
    \cup UNION { ExpectedAttributeNodes(recipes[i]) : i \in 1..Len(recipes) }

NodeIds == { G.nodes[n].id : n \in 1..Len(G.nodes) }

\* two records whose ingredient lists differ at most in letter case
SameIngredientsUpToCase(a, b) ==
    /\ PassesGuard(a["BestUsdaIngredientName"])
    /\ PassesGuard(b["BestUsdaIngredientName"])
    /\ Lower(PyStr(a["BestUsdaIngredientName"])) = Lower(PyStr(b["BestUsdaIngredientName"]))

\* C8: the graph holds exactly one node per distinct (type, value) pair of
\* the records visited, ingredient values compared lower-cased and all
\* others trimmed with case kept; records whose ingredient lists differ only
\* in letter case are linked to the same ingredient nodes.
C8_OneNodePerTypeValue ==
    /\ \A m, n \in 1..Len(G.nodes) : G.nodes[m].id = G.nodes[n].id => m = n
    /\ NodeIds = ExpectedNodes
    /\ \A i, j \in 1..Len(recipes) :
         SameIngredientsUpToCase(recipes[i], recipes[j])
         => Linked(i, "ingredient") = Linked(j, "ingredient")

\* C8's case: two records spell the same two ingredients in different
\* case and share their two ingredient nodes, while their cooking methods,
\* which also differ only in case, have a node each.
C8_Witness ==
    /\ Len(recipes) = 2
    /\ recipes[1]["BestUsdaIngredientName"] # recipes[2]["BestUsdaIngredientName"]
    /\ SameIngredientsUpToCase(recipes[1], recipes[2])
    /\ Linked(1, "ingredient") = Linked(2, "ingredient")
    /\ Cardinality(Linked(1, "ingredient")) = 2
    /\ recipes[1]["Cooking_Method"] # recipes[2]["Cooking_Method"]
    /\ Lower(recipes[1]["Cooking_Method"]) = Lower(recipes[2]["Cooking_Method"])
    /\ Cardinality(Linked(1, "cooking_method") \cup Linked(2, "cooking_method")) = 2
    /\ Cardinality({ n \in 1..Len(G.nodes) : G.nodes[n].type = "ingredient" }) = 2

\* C9 (as stated): the triples are in one-to-one correspondence with the
\* graph's edges, so there are as many triples as edges, and every triple's
\* head encodes a recipe node.
C9_TriplesOneToOneWithEdges ==
    returned =>
      /\ Len(triples) = Cardinality(G.edges)
      /\ \A e \in G.edges :
           Cardinality({ k \in 1..Len(triples) :
                           triples[k] = <<TupleStr(e.u), e.relation, TupleStr(e.v)>> }) = 1
      /\ \A k \in 1..Len(triples) :
           /\ Cardinality({ e \in G.edges :
                              triples[k] = <<TupleStr(e.u), e.relation, TupleStr(e.v)>> }) = 1
           /\ StartsWith(triples[k][1], <<"(", "'">> \o TypeChars("recipe") \o <<"'", ",">>)

-----------------------------------------------------------------------------
(* Claims about the translator against the builder (SpecMirror) *)

\* C2 (as stated): for every category and every raw value the builder
\* makes a node of, the criterion the translator makes of the same value
\* has that node's canonical string as its tail and that node's edge
\* relation as its relation.
C2_TranslatorMirrorsBuilder ==
    (kg.built /\ mirrored.asked /\ kg.triples # {})
    => { <<tr[3], tr[2]>> : tr \in kg.triples }
       = { <<mirrored.criteria[k].tail, mirrored.criteria[k].relation>> :
             k \in 1..Len(mirrored.criteria) }

-----------------------------------------------------------------------------
(* Claims about get_matching_recipes (SpecRank) *)

\* a label that encodes a recipe node, and the identifier it carries
HasRecipePrefix(l) == Len(l) >= 7 /\ \A k \in 1..7 : l[k] = recipe_prefix[k]
WithoutPrefix(l) == [k \in 1..(Len(l) - 7) |-> l[k + 7]]

\* the recipe candidates of the i-th criterion
RecipeCandidates(i) == { l \in DOMAIN all_preds[i] : HasRecipePrefix(l) }

\* the sum, over the first n criteria, of a label's weighted score, 0 where
\* the criterion's list does not hold the label
RECURSIVE ScoreSum(_, _)
ScoreSum(l, n) ==
    IF n = 0 THEN 0
    ELSE ScoreSum(l, n - 1) + (IF l \in DOMAIN all_preds[n] THEN all_preds[n][l] ELSE 0)

Answered == result # <<>> /\ result.status # "pending"

\* C3: with criteria, the merged candidates are the union of the
\* per-criterion recipe candidates when flexible and their intersection
\* when not, and each one's combined score is the sum over all criteria of
\* its weighted score, 0 where it is absent.
C3_UnionOrIntersectionWithSummedScores ==
    (Answered /\ criteria # <<>>) =>
      /\ DOMAIN merged =
           IF request.flexible
           THEN UNION { RecipeCandidates(i) : i \in 1..Len(criteria) }
           ELSE { l \in RecipeCandidates(1) :
                    \A i \in 1..Len(criteria) : l \in RecipeCandidates(i) }
      /\ \A l \in DOMAIN merged : merged[l] = ScoreSum(l, Len(criteria))

\* C3's case: two criteria with different recipe candidates, one candidate
\* in both lists with a positive score in each, merged as a union.
C3_Witness ==
    /\ Answered
    /\ Len(criteria) = 2
    /\ request.flexible
    /\ RecipeCandidates(1) = { <<"r","e","c","i","p","e","_","1","0">>, <<"r","e","c","i","p","e","_","7">> }
    /\ RecipeCandidates(2) = { <<"r","e","c","i","p","e","_","7">> }
    /\ all_preds[1][<<"r","e","c","i","p","e","_","7">>] > 0
    /\ all_preds[2][<<"r","e","c","i","p","e","_","7">>] > 0
    /\ DOMAIN merged = { <<"r","e","c","i","p","e","_","1","0">>, <<"r","e","c","i","p","e","_","7">> }
    /\ merged[<<"r","e","c","i","p","e","_","7">>] = all_preds[1][<<"r","e","c","i","p","e","_","7">>] + all_preds[2][<<"r","e","c","i","p","e","_","7">>]

\* C4: every identifier returned is a candidate label that starts with
\* "recipe_", with that prefix taken off; a candidate of another type is
\* never among the merged rows, whatever its score, yet the scores of every
\* criterion are scaled by the minimum and maximum over all its rows.
C4_OnlyRecipesReturned ==
    Answered =>
      /\ \A k \in 1..Len(result.ids) :
           \E i \in 1..Len(predicted) : \E l \in DOMAIN predicted[i] :
             HasRecipePrefix(l) /\ result.ids[k] = WithoutPrefix(l)
      /\ \A l \in DOMAIN merged : HasRecipePrefix(l)
      /\ Len(result.ids) <= Cardinality(DOMAIN merged)
      /\ \A i \in 1..Len(predicted) : \A l \in DOMAIN predicted[i] :
           LET rows == { predicted[i][x] : x \in DOMAIN predicted[i] } IN
           all_preds[i][l] * (Max(rows) - Min(rows))
             = (predicted[i][l] - Min(rows)) * Unit * criteria[i].weight
           /\ (Max(rows) = Min(rows) => all_preds[i][l] = 0)

\* C4's case: the adapter returns recipe_10 at 0.9, recipe_7 at 0.5 and
\* ingredient_sugar at 0.8 for the one criterion meal_type_dessert; with
\* K = 2 and flexible = false the answer is ["10", "7"].
C4_Witness ==
    /\ Answered
    /\ Len(criteria) = 1
    /\ criteria[1].tail = <<"m","e","a","l","_","t","y","p","e","_","d","e","s","s","e","r","t">>
    /\ criteria[1].relation = "isForMealType"
    /\ request.top_k = 2 /\ ~request.flexible
    /\ predicted[1] = [l \in Labels |->
                         IF l = <<"r","e","c","i","p","e","_","1","0">> THEN 9
                         ELSE IF l = <<"r","e","c","i","p","e","_","7">> THEN 5 ELSE 8]
    /\ all_preds[1][<<"i","n","g","r","e","d","i","e","n","t","_","s","u","g","a","r">>] > all_preds[1][<<"r","e","c","i","p","e","_","7">>]
    /\ result.ids = << <<"1","0">>, <<"7">> >>

\* the combined score of a returned identifier
ScoreOfId(id) == merged[recipe_prefix \o id]

\* C5: with criteria and K >= 0, at most K identifiers are returned, in
\* non-increasing order of combined score, no merged candidate left out
\* scores strictly more than a returned one, and K = 0 returns nothing.
C5_TopKInScoreOrder ==
    (Answered /\ criteria # <<>> /\ request.top_k >= 0) =>
      LET ids == result.ids IN
      /\ result.status = "returned"
      /\ Len(ids) <= request.top_k
      /\ \A i, j \in 1..Len(ids) : i < j => ScoreOfId(ids[i]) >= ScoreOfId(ids[j])
      /\ \A l \in DOMAIN merged :
           (\A k \in 1..Len(ids) : recipe_prefix \o ids[k] # l)
           => \A k \in 1..Len(ids) : merged[l] <= ScoreOfId(ids[k])
      /\ (request.top_k = 0 => ids = <<>>)

\* C5's case: two merged candidates of different scores and K = 1: the
\* higher one is returned and the lower one left out.
C5_Witness ==
    /\ Answered
    /\ request.top_k = 1
    /\ Cardinality(DOMAIN merged) = 2
    /\ Len(result.ids) = 1
    /\ \E l \in DOMAIN merged : merged[l] < ScoreOfId(result.ids[1])

\* a request with every optional field absent and every list field empty
AllAbsent(req) ==
    /\ req.cooking_method = None /\ req.servings_bin = None
    /\ req.cook_time = None /\ req.cuisine_region = None
    /\ req.diet_types = <<>> /\ req.meal_type = <<>>
    /\ req.health_types = <<>> /\ req.ingredients = <<>>

\* C6: on an empty criterion list, and so on a request with every optional
\* field absent and every list field empty, the empty list is returned and
\* predict_target is not called.
C6_NoCriteriaNoPrediction ==
    (Answered /\ (criteria = <<>> \/ AllAbsent(request))) =>
      /\ result = Returned(<<>>)
      /\ predictCalls = 0
      /\ predicted = <<>>

\* C6's case: a request with nothing in it and K > 0 was answered.
C6_Witness ==
    /\ Answered
    /\ AllAbsent(request)
    /\ request.top_k > 0
    /\ result = Returned(<<>>)
    /\ predictCalls = 0

\* the key of the weight mapping a criterion's category is looked up
\* under; every relation that is none of the seven fixed ones comes from
\* map_health_attribute
WeightKey(c) ==
    CASE c.relation = "usesCookingMethod" -> "cooking_method"
      [] c.relation = "hasServingsBin" -> "servings_bin"
      [] c.relation = "hasDietType" -> "diet_types"
      [] c.relation = "isForMealType" -> "meal_type"
      [] c.relation = "hasCookTime" -> "cook_time"
      [] c.relation = "hasCuisineRegion" -> "cuisine_region"
      [] c.relation = "containsIngredient" -> "ingredients"
      [] OTHER -> "healthy_type"

\* C11 (as stated): every criterion made from a request carries a weight
\* >= 0, namely the request's weight for the criterion's category or 1.0
\* where the mapping has none, and so every weighted score and every
\* combined score is >= 0.
C11_WeightsNeverNegative ==
    Answered =>
      /\ \A k \in 1..Len(criteria) :
           /\ criteria[k].weight = WeightOf(request.weights, WeightKey(criteria[k]))
           /\ criteria[k].weight >= 0
      /\ \A i \in 1..Len(all_preds) : \A l \in DOMAIN all_preds[i] : all_preds[i][l] >= 0
      /\ \A l \in DOMAIN merged : merged[l] >= 0

\* The part of C11 that does not rest on the sign of the request's
\* weights: each criterion's weight is the request's entry for its
\* category, 1.0 where there is none.
C11_WeightIsEntryOrDefault ==
    Answered =>
      \A k \in 1..Len(criteria) :
        criteria[k].weight = WeightOf(request.weights, WeightKey(criteria[k]))

-----------------------------------------------------------------------------
(* Claims about concurrent requests (SpecServe) *)

\* what a request returns when it runs alone against the state as loaded
AloneResults(r) ==
    IF r.kind = "recommend"
    THEN LET crit == map_user_input_to_criteria(r.body)
             outs == [i \in 1..Len(crit) |->
                        predict_target(LoadedModel, crit[i].relation, crit[i].tail)]
         IN  get_matching_recipes(crit, r.body.top_k, r.body.flexible, outs).results
    ELSE LET info == fetch_recipe_info(LoadedRecipes, r.recipe_id) IN
         { IF info = <<>> THEN [status |-> "404", info |-> <<>>]
           ELSE [status |-> "returned", info |-> info] }

\* C10: however the requests interleave, the record store, the model and
\* the triples factory stay as they were loaded, and every request returns
\* what it returns when run alone.
C10_SharedStateNeverMutated ==
    /\ recipes_df = LoadedRecipes
    /\ model = LoadedModel
    /\ triples_factory = LoadedTriples
    /\ \A h \in Handlers :
         handlers[h].pc = "done" => handlers[h].result \in AloneResults(handlers[h].req)

\* C10's case: a recommendation and a lookup have returned while another
\* recommendation on the same criterion is between two of its
\* predict_target calls.
C10_Witness ==
    \E a, b \in Handlers :
      /\ handlers[a].pc = "predict" /\ Len(handlers[a].all_preds) = 1
      /\ handlers[b].pc = "done"
      /\ handlers[b].req.kind = "recommend"
      /\ handlers[b].result = Returned(<< <<"7">> >>)

====
